---- MODULE Spec2Model ----
(***************************************************************************)
(* pondo: a task list kept in ~/.pondo/tasks.json.  Every command line     *)
(* invocation (init, add, list, done) is one process that reads the file,  *)
(* changes the list in memory, rewrites the whole file and exits.          *)
(*                                                                         *)
(* Strings the program computes on are sequences of one-character strings  *)
(* (names, ids) or sequences of text chunks (messages, timestamps).        *)
(***************************************************************************)
EXTENDS Integers, Sequences, FiniteSets, TLC

VARIABLES
    dirExists,   \* whether ~/.pondo exists
    file,        \* ~/.pondo/tasks.json: absent, or its text
    now,         \* the wall clock, in milliseconds after Epoch
    out,         \* what the last invocation was given, did and reported
    gen,         \* the values generateId() returned in the current process
    procs        \* two invocations running at the same time: where each is

vars == <<dirExists, file, now, out, gen, procs>>

-----------------------------------------------------------------------------
(* Bounds *)

MaxTasks == 2
MaxClock == 1
MaxDigits == 3

Min(a, b) == IF a < b THEN a ELSE b

-----------------------------------------------------------------------------
(* String.prototype.trim, as used by add *)

Whitespace == {" ", "\t"}

RECURSIVE trimStart(_)
trimStart(s) ==
    IF s # <<>> /\ Head(s) \in Whitespace THEN trimStart(Tail(s)) ELSE s

RECURSIVE trimEnd(_)
trimEnd(s) ==
    IF s # <<>> /\ s[Len(s)] \in Whitespace
    THEN trimEnd(SubSeq(s, 1, Len(s) - 1))
    ELSE s

trimNone(s) == s

trim(s) == trimEnd(trimStart(s))

-----------------------------------------------------------------------------
(* generateId: 'T' + Math.random().toString(36).substr(2, 3).toUpperCase() *)

LowerAlpha == <<"a","b","c","d","e","f","g","h","i","j","k","l","m",
                "n","o","p","q","r","s","t","u","v","w","x","y","z">>
UpperAlpha == <<"A","B","C","D","E","F","G","H","I","J","K","L","M",
                "N","O","P","Q","R","S","T","U","V","W","X","Y","Z">>
DecDigit == <<"0","1","2","3","4","5","6","7","8","9">>

Range(s) == {s[i] : i \in 1..Len(s)}

\* A value of Math.random() in [0, 1) is modelled by the digits of its
\* shortest base-36 fraction: <<>> is 0, <<"i">> is 0.5, no trailing "0".
Digits36 == {"0", "7", "i"}

RECURSIVE SeqsUpTo(_, _)
SeqsUpTo(S, n) ==
    IF n = 0 THEN {<<>>}
    ELSE LET shorter == SeqsUpTo(S, n - 1)
         IN  shorter \cup {Append(s, c) : s \in shorter, c \in S}

Randoms == {r \in SeqsUpTo(Digits36, MaxDigits) : r = <<>> \/ r[Len(r)] # "0"}

\* Number.prototype.toString(36) of a value in [0, 1)
toString36(r) == IF r = <<>> THEN <<"0">> ELSE <<"0", ".">> \o r

\* String.prototype.substr(start, length), start counted from 0
substr(s, start, length) == SubSeq(s, start + 1, Min(Len(s), start + length))

toUpperCaseChar(c) ==
    IF \E i \in 1..26 : LowerAlpha[i] = c
    THEN UpperAlpha[CHOOSE i \in 1..26 : LowerAlpha[i] = c]
    ELSE c

toUpperCase(s) == [i \in 1..Len(s) |-> toUpperCaseChar(s[i])]

generateId(r) == <<"T">> \o toUpperCase(substr(toString36(r), 2, 3))

-----------------------------------------------------------------------------
(* new Date().toISOString() *)

toISOString(t) ==
    << "2025-07-24T00:00:00.",
       DecDigit[((t \div 100) % 10) + 1],
       DecDigit[((t \div 10) % 10) + 1],
       DecDigit[(t % 10) + 1],
       "Z" >>

-----------------------------------------------------------------------------
(* The tasks file and its JSON text.  A text is a JSON array of objects,   *)
(* each object the sequence of its key/value pairs in the order written,   *)
(* or text that JSON.parse rejects.                                        *)

NoFile == [kind |-> "absent", items |-> <<>>]
Garbage == [kind |-> "garbage", items |-> <<>>]

existsSync(f) == f.kind # "absent"

stringifyValue(b) == IF b THEN <<"true">> ELSE <<"false">>

stringifyTask(t) ==
    << [k |-> "id", v |-> t.id],
       [k |-> "name", v |-> t.name],
       [k |-> "done", v |-> stringifyValue(t.done)],
       [k |-> "createdAt", v |-> t.createdAt] >>
    \o (IF "completedAt" \in DOMAIN t
        THEN << [k |-> "completedAt", v |-> t.completedAt] >>
        ELSE << >>)

JSONstringify(tasks) ==
    [kind |-> "json", items |-> [i \in 1..Len(tasks) |-> stringifyTask(tasks[i])]]

parseTask(o) ==
    LET has(key) == \E i \in 1..Len(o) : o[i].k = key
        val(key) == o[CHOOSE i \in 1..Len(o) : o[i].k = key].v
    IN  IF has("completedAt")
        THEN [id |-> val("id"), name |-> val("name"),
              done |-> (val("done") = <<"true">>),
              createdAt |-> val("createdAt"),
              completedAt |-> val("completedAt")]
        ELSE [id |-> val("id"), name |-> val("name"),
              done |-> (val("done") = <<"true">>),
              createdAt |-> val("createdAt")]

JSONparse(text) == [i \in 1..Len(text.items) |-> parseTask(text.items[i])]

\* loadTasks: throws when the file is missing, unreadable or not JSON
loadTasks(f, fault) ==
    IF ~existsSync(f)
    THEN [threw |-> "NotInitialized",
          message |-> <<"Tasks file not found. Run \"pondo init\" first.">>,
          tasks |-> <<>>, exists |-> 1, reads |-> 0]
    ELSE IF fault = "read"
    THEN [threw |-> "IOFailure", message |-> <<"EACCES: permission denied">>,
          tasks |-> <<>>, exists |-> 1, reads |-> 1]
    ELSE IF f.kind # "json"
    THEN [threw |-> "CorruptData", message |-> <<"Unexpected token in JSON">>,
          tasks |-> <<>>, exists |-> 1, reads |-> 1]
    ELSE [threw |-> "none", message |-> <<>>,
          tasks |-> JSONparse(f), exists |-> 1, reads |-> 1]

\* saveTasks: rewrites the whole file, or throws and leaves it as it was
saveTasks(f, tasks, fault) ==
    IF fault = "write"
    THEN [threw |-> "IOFailure", message |-> <<"ENOSPC: no space left on device">>,
          file |-> f]
    ELSE [threw |-> "none", message |-> <<>>, file |-> JSONstringify(tasks)]

-----------------------------------------------------------------------------
(* console output and the record of an invocation *)

log(text) == [stream |-> "stdout", text |-> text]
error(text) == [stream |-> "stderr", text |-> text]

NoCalls == [exists |-> 0, reads |-> 0, writes |-> 0, mkdirs |-> 0]

\* failure is the error kind of the invocation: none, ValidationError,
\* NotInitialized, NotFound, CorruptData or IOFailure
Report(cmd, arg, before, msgs, exit, failure, fs) ==
    [cmd |-> cmd, arg |-> arg, before |-> before, dirBefore |-> dirExists,
     msgs |-> msgs, exit |-> exit, failure |-> failure, fs |-> fs]

-----------------------------------------------------------------------------
(* Inputs of the invocations *)

\* the concurrent invocations
Procs == {1, 2}

\* an invocation that has not started
Idle ==
    [pc |-> "idle", cmd |-> "none", arg |-> <<>>, loaded |-> NoFile,
     loadedAt |-> 0, savedAt |-> 0, failure |-> "none", msgs |-> <<>>]

TaskNames ==
    { <<>>, <<" ", "\t", " ">>, <<"a", " ", "b">>, <<" ", "a", " ", "b", "\t">> }

\* the values Math.random() takes in add
AddRandoms == { <<"i">>, <<"7", "i", "7">>, <<"7", "i", "7", "i">> }

TaskIds == { <<>>, <<"T", "9", "9", "9">> } \cup {generateId(r) : r \in AddRandoms}

\* the time of an invocation: the clock never runs backwards
Times == now .. Min(now + 1, MaxClock)

-----------------------------------------------------------------------------
(* init *)

ExitOk == 0
ExitFailure == 1

alreadyInitializedDirOnly(configExists, tasksExists) == configExists

alreadyInitialized(configExists, tasksExists) == configExists /\ tasksExists

initCatch(message) ==
    [msgs |-> <<error(<<"Failed to initialize: ">> \o message)>>, exit |-> ExitFailure]

init(t, fault) ==
    LET configExists == dirExists
        tasksExists == existsSync(file)
        checked == [NoCalls EXCEPT !.exists = 2]
    IN
    /\ now' = t
    /\ gen' = <<>>
    /\ IF alreadyInitialized(configExists, tasksExists)
       THEN /\ out' = Report("init", <<>>, file,
                        <<log(<<"pondo is already initialized in ~/.pondo">>)>>,
                        ExitOk, "none", checked)
            /\ UNCHANGED <<dirExists, file>>
       ELSE IF ~configExists /\ fault = "mkdir"
       THEN LET c == initCatch(<<"EACCES: permission denied, mkdir">>)
            IN  /\ out' = Report("init", <<>>, file, c.msgs, c.exit, "IOFailure",
                                 [checked EXCEPT !.mkdirs = 1])
                /\ UNCHANGED <<dirExists, file>>
       ELSE LET made == IF configExists THEN 0 ELSE 1
            IN
            /\ dirExists' = TRUE
            /\ IF ~tasksExists /\ fault = "write"
               THEN LET c == initCatch(<<"ENOSPC: no space left on device, write">>)
                    IN  /\ out' = Report("init", <<>>, file, c.msgs, c.exit, "IOFailure",
                                    [checked EXCEPT !.mkdirs = made, !.writes = 1])
                        /\ UNCHANGED file
               ELSE /\ file' = IF tasksExists THEN file ELSE JSONstringify(<<>>)
                    /\ out' = Report("init", <<>>, file,
                                <<log(<<"Initialized pondo in ~/.pondo">>)>>,
                                ExitOk, "none",
                                [checked EXCEPT !.mkdirs = made,
                                                !.writes = IF tasksExists THEN 0 ELSE 1])

-----------------------------------------------------------------------------
(* add *)

newTask(r, taskName, t) ==
    [id |-> generateId(r), name |-> trim(taskName), done |-> FALSE,
     createdAt |-> toISOString(t)]

unshift(tasks, task) == <<task>> \o tasks

push(tasks, task) == Append(tasks, task)

addCatchExits(message) ==
    [msgs |-> <<error(<<"Failed to add task: ">> \o message)>>, exit |-> ExitFailure]

addCatch(message) ==
    [msgs |-> <<error(<<"Failed to add task: ">> \o message)>>, exit |-> ExitOk]

add(taskName, r, t, fault) ==
    /\ now' = t
    /\ IF trim(taskName) = <<>>
       THEN /\ out' = Report("add", taskName, file,
                        <<error(<<"Task name is required">>)>>,
                        ExitOk, "ValidationError", NoCalls)
            /\ gen' = <<>>
            /\ UNCHANGED <<dirExists, file>>
       ELSE LET l == loadTasks(file, fault)
                fs == [NoCalls EXCEPT !.exists = l.exists, !.reads = l.reads]
            IN
            IF l.threw # "none"
            THEN LET c == addCatch(l.message)
                 IN  /\ out' = Report("add", taskName, file, c.msgs, c.exit, l.threw, fs)
                     /\ gen' = <<>>
                     /\ UNCHANGED <<dirExists, file>>
            ELSE LET task == newTask(r, taskName, t)
                     tasks == push(l.tasks, task)
                     s == saveTasks(file, tasks, fault)
                     wrote == [fs EXCEPT !.writes = 1]
                 IN
                 /\ Len(l.tasks) < MaxTasks
                 /\ gen' = <<[rnd |-> r, id |-> task.id]>>
                 /\ file' = s.file
                 /\ UNCHANGED dirExists
                 /\ IF s.threw # "none"
                    THEN LET c == addCatch(s.message)
                         IN  out' = Report("add", taskName, file, c.msgs, c.exit,
                                           s.threw, wrote)
                    ELSE out' = Report("add", taskName, file,
                                  <<log(<<"Added task: ">> \o task.name \o <<" (ID: ">>
                                        \o task.id \o <<")">>)>>,
                                  ExitOk, "none", wrote)

-----------------------------------------------------------------------------
(* list *)

listLine(task) ==
    log(<<"  ", IF task.done THEN "completed" ELSE "pending", " [">>
        \o task.id \o <<"] ">> \o task.name)

listCatch(message) ==
    [msgs |-> <<error(<<"Failed to list tasks: ">> \o message)>>, exit |-> ExitOk]

list(t, fault) ==
    LET l == loadTasks(file, fault)
        fs == [NoCalls EXCEPT !.exists = l.exists, !.reads = l.reads]
    IN
    /\ now' = t
    /\ gen' = <<>>
    /\ UNCHANGED <<dirExists, file>>
    /\ IF l.threw # "none"
       THEN LET c == listCatch(l.message)
            IN  out' = Report("list", <<>>, file, c.msgs, c.exit, l.threw, fs)
       ELSE IF Len(l.tasks) = 0
       THEN out' = Report("list", <<>>, file,
                     <<log(<<"No tasks found. Use \"pondo add <task>\" to create one.">>)>>,
                     ExitOk, "none", fs)
       ELSE out' = Report("list", <<>>, file,
                     <<log(<<"\nTasks:">>)>>
                     \o [i \in 1..Len(l.tasks) |-> listLine(l.tasks[i])]
                     \o <<log(<<>>)>>,
                     ExitOk, "none", fs)

-----------------------------------------------------------------------------
(* done *)

\* tasks.find(t => t.id === taskId): the position of the first match, 0 for undefined
findOrFirst(tasks, taskId) ==
    IF \E i \in 1..Len(tasks) : tasks[i].id = taskId
    THEN CHOOSE i \in 1..Len(tasks) :
            /\ tasks[i].id = taskId
            /\ \A j \in 1..(i - 1) : tasks[j].id # taskId
    ELSE Min(1, Len(tasks))

find(tasks, taskId) ==
    IF \E i \in 1..Len(tasks) : tasks[i].id = taskId
    THEN CHOOSE i \in 1..Len(tasks) :
            /\ tasks[i].id = taskId
            /\ \A j \in 1..(i - 1) : tasks[j].id # taskId
    ELSE 0

\* task.done = true; task.completedAt = new Date().toISOString()
markDoneOnly(task, t) ==
    IF "completedAt" \in DOMAIN task
    THEN [task EXCEPT !.done = TRUE]
    ELSE [id |-> task.id, name |-> task.name, done |-> TRUE,
          createdAt |-> task.createdAt]

markDone(task, t) ==
    [id |-> task.id, name |-> task.name, done |-> TRUE,
     createdAt |-> task.createdAt, completedAt |-> toISOString(t)]

doneCatch(message) ==
    [msgs |-> <<error(<<"Failed to mark task as done: ">> \o message)>>, exit |-> ExitOk]

done(taskId, t, fault) ==
    /\ now' = t
    /\ gen' = <<>>
    /\ UNCHANGED dirExists
    /\ IF taskId = <<>>
       THEN /\ out' = Report("done", taskId, file,
                        <<error(<<"Task ID is required">>)>>,
                        ExitOk, "ValidationError", NoCalls)
            /\ UNCHANGED file
       ELSE LET l == loadTasks(file, fault)
                fs == [NoCalls EXCEPT !.exists = l.exists, !.reads = l.reads]
            IN
            IF l.threw # "none"
            THEN LET c == doneCatch(l.message)
                 IN  /\ out' = Report("done", taskId, file, c.msgs, c.exit, l.threw, fs)
                     /\ UNCHANGED file
            ELSE LET i == find(l.tasks, taskId)
                 IN
                 IF i = 0
                 THEN /\ out' = Report("done", taskId, file,
                                  <<error(<<"Task with ID \"">> \o taskId
                                          \o <<"\" not found">>)>>,
                                  ExitOk, "NotFound", fs)
                      /\ UNCHANGED file
                 ELSE LET task == markDone(l.tasks[i], t)
                          tasks == [l.tasks EXCEPT ![i] = task]
                          s == saveTasks(file, tasks, fault)
                          wrote == [fs EXCEPT !.writes = 1]
                      IN
                      /\ file' = s.file
                      /\ IF s.threw # "none"
                         THEN LET c == doneCatch(s.message)
                              IN  out' = Report("done", taskId, file, c.msgs, c.exit,
                                                s.threw, wrote)
                         ELSE out' = Report("done", taskId, file,
                                       <<log(<<"Marked task as done: ">> \o task.name)>>,
                                       ExitOk, "none", wrote)

-----------------------------------------------------------------------------
(* The command line tool: one invocation after another on a fresh home     *)

Fresh ==
    /\ dirExists = FALSE
    /\ file = NoFile
    /\ now = 0
    /\ gen = <<>>
    /\ out = Report("none", <<>>, NoFile, <<>>, ExitOk, "none", NoCalls)
    /\ procs = [p \in Procs |-> Idle]

Init == Fresh

RunInit ==
    /\ \E t \in Times, fault \in {"none", "mkdir", "write"} : init(t, fault)
    /\ UNCHANGED procs

RunAdd ==
    /\ \E taskName \in TaskNames, r \in AddRandoms, t \in Times,
          fault \in {"none", "read", "write"} : add(taskName, r, t, fault)
    /\ UNCHANGED procs

RunList ==
    /\ \E t \in Times, fault \in {"none", "read"} : list(t, fault)
    /\ UNCHANGED procs

RunDone ==
    /\ \E taskId \in TaskIds, t \in Times, fault \in {"none", "read", "write"} :
          done(taskId, t, fault)
    /\ UNCHANGED procs

Next == RunInit \/ RunAdd \/ RunList \/ RunDone

Spec == Init /\ [][Next]_vars

-----------------------------------------------------------------------------
(* The same tool on a home directory found in any condition, the tasks     *)
(* file possibly edited by hand into text that is not JSON                 *)

Homes ==
    { [dir |-> FALSE, file |-> NoFile],
      [dir |-> TRUE, file |-> NoFile],
      [dir |-> TRUE, file |-> Garbage],
      [dir |-> TRUE, file |-> JSONstringify(<<>>)] }

InitEnv ==
    \E h \in Homes :
        /\ dirExists = h.dir
        /\ file = h.file
        /\ now = 0
        /\ gen = <<>>
        /\ out = Report("none", <<>>, h.file, <<>>, ExitOk, "none", NoCalls)
        /\ procs = [p \in Procs |-> Idle]

SpecEnv == InitEnv /\ [][Next]_vars

-----------------------------------------------------------------------------
(* generateId() called repeatedly on one PonDo instance, for every value   *)
(* of Math.random(); gen keeps the last two results                        *)

LastTwo(s) == IF Len(s) > 2 THEN SubSeq(s, Len(s) - 1, Len(s)) ELSE s

GenerateId ==
    \E r \in Randoms :
        /\ gen' = LastTwo(Append(gen, [rnd |-> r, id |-> generateId(r)]))
        /\ UNCHANGED <<dirExists, file, now, out, procs>>

NextId == GenerateId

SpecId == Fresh /\ [][NextId]_vars

-----------------------------------------------------------------------------
(* Two invocations of add or done running at the same time on one tasks    *)
(* file.  Each is the handler of add or done cut at its file system calls: *)
(* it validates and loads the list (existsSync, readFileSync), then        *)
(* changes the list it holds in memory and saves it (writeFileSync).       *)
(* Nothing locks the file between the two steps.                           *)

\* the homes the two invocations start on: initialized, empty or one task
RaceHomes ==
    { JSONstringify(<<>>),
      JSONstringify(<<newTask(<<"i">>, <<"a", " ", "b">>, 0)>>) }

InitRace ==
    \E f \in RaceHomes :
        /\ dirExists = TRUE
        /\ file = f
        /\ now = 0
        /\ gen = <<>>
        /\ out = Report("none", <<>>, f, <<>>, ExitOk, "none", NoCalls)
        /\ procs = [p \in Procs |-> Idle]

\* how many writeFileSync calls the invocations have made
saves == Cardinality({q \in Procs : procs[q].savedAt > 0})

Exited(p, failure, msgs, savedAt) ==
    [procs[p] EXCEPT !.pc = "exited", !.failure = failure, !.msgs = msgs,
                     !.savedAt = savedAt]

\* the text the list in the invocation's memory was parsed from
reloaded(p) == file

inMemory(p) == procs[p].loaded

\* the handler up to const tasks = this.loadTasks()
begin(p, cmd, arg) ==
    /\ procs[p].pc = "idle"
    /\ UNCHANGED <<dirExists, file, now, gen>>
    /\ LET started == [procs[p] EXCEPT !.cmd = cmd, !.arg = arg]
           invalid == IF cmd = "add" THEN trim(arg) = <<>> ELSE arg = <<>>
           required == IF cmd = "add" THEN <<error(<<"Task name is required">>)>>
                       ELSE <<error(<<"Task ID is required">>)>>
           l == loadTasks(file, "none")
           c == IF cmd = "add" THEN addCatch(l.message) ELSE doneCatch(l.message)
           fs == [NoCalls EXCEPT !.exists = l.exists, !.reads = l.reads]
       IN  IF invalid
           THEN /\ procs' = [procs EXCEPT ![p] =
                               [started EXCEPT !.pc = "exited",
                                               !.failure = "ValidationError",
                                               !.msgs = required]]
                /\ out' = Report(cmd, arg, file, required, ExitOk,
                                 "ValidationError", NoCalls)
           ELSE IF l.threw # "none"
           THEN /\ procs' = [procs EXCEPT ![p] =
                               [started EXCEPT !.pc = "exited", !.failure = l.threw,
                                               !.msgs = c.msgs]]
                /\ out' = Report(cmd, arg, file, c.msgs, c.exit, l.threw, fs)
           ELSE /\ cmd = "add" => Len(l.tasks) < MaxTasks
                /\ procs' = [procs EXCEPT ![p] =
                               [started EXCEPT !.pc = "loaded", !.loaded = file,
                                               !.loadedAt = saves]]
                /\ UNCHANGED out

\* the handler from there: the change in memory, saveTasks(tasks), the report
finish(p, r, t) ==
    /\ procs[p].pc = "loaded"
    /\ now' = t
    /\ UNCHANGED dirExists
    /\ LET me == procs[p]
           tasks == JSONparse(inMemory(p))
           fs == [NoCalls EXCEPT !.exists = 1, !.reads = 1]
           wrote == [fs EXCEPT !.writes = 1]
       IN  IF me.cmd = "add"
           THEN LET task == newTask(r, me.arg, t)
                    s == saveTasks(file, push(tasks, task), "none")
                    msgs == <<log(<<"Added task: ">> \o task.name \o <<" (ID: ">>
                                  \o task.id \o <<")">>)>>
                IN  /\ gen' = <<[rnd |-> r, id |-> task.id]>>
                    /\ file' = s.file
                    /\ procs' = [procs EXCEPT ![p] = Exited(p, "none", msgs, saves + 1)]
                    /\ out' = Report("add", me.arg, me.loaded, msgs, ExitOk, "none", wrote)
           ELSE LET i == find(tasks, me.arg)
                IN  IF i = 0
                    THEN LET msgs == <<error(<<"Task with ID \"">> \o me.arg
                                             \o <<"\" not found">>)>>
                         IN  /\ gen' = <<>>
                             /\ UNCHANGED file
                             /\ procs' = [procs EXCEPT ![p] =
                                            Exited(p, "NotFound", msgs, 0)]
                             /\ out' = Report("done", me.arg, me.loaded, msgs, ExitOk,
                                              "NotFound", fs)
                    ELSE LET task == markDone(tasks[i], t)
                             s == saveTasks(file, [tasks EXCEPT ![i] = task], "none")
                             msgs == <<log(<<"Marked task as done: ">> \o task.name)>>
                         IN  /\ gen' = <<>>
                             /\ file' = s.file
                             /\ procs' = [procs EXCEPT ![p] =
                                            Exited(p, "none", msgs, saves + 1)]
                             /\ out' = Report("done", me.arg, me.loaded, msgs, ExitOk,
                                              "none", wrote)

RaceBegin ==
    \E p \in Procs :
        \/ \E taskName \in TaskNames : begin(p, "add", taskName)
        \/ \E taskId \in TaskIds : begin(p, "done", taskId)

RaceFinish == \E p \in Procs, r \in AddRandoms, t \in Times : finish(p, r, t)

NextRace == RaceBegin \/ RaceFinish

SpecRace == InitRace /\ [][NextRace]_vars

-----------------------------------------------------------------------------
(* Vocabulary of the properties *)

\* the tasks the file holds
Stored(f) == IF f.kind = "json" THEN JSONparse(f) ELSE <<>>

IsBlank(s) == \A i \in 1..Len(s) : s[i] \in Whitespace

\* n is s without its leading and trailing whitespace
IsTrimOf(n, s) ==
    /\ n # <<>>
    /\ n[1] \notin Whitespace
    /\ n[Len(n)] \notin Whitespace
    /\ \E a \in 0..Len(s) :
          /\ a + Len(n) <= Len(s)
          /\ SubSeq(s, a + 1, a + Len(n)) = n
          /\ \A i \in (1..a) \cup ((a + Len(n) + 1)..Len(s)) : s[i] \in Whitespace

IdChars == Range(UpperAlpha) \cup Range(DecDigit)

-----------------------------------------------------------------------------
(* Properties *)

\* C1: add(s) with a name that is not blank, on a store whose file holds a
\* task list, saves the previous list unchanged and in order, followed by
\* one new record whose name is s trimmed, whose done is false and which has
\* no completedAt; only a failing file system call keeps it from doing so.
C1_AddAppendsOneTask ==
    (out.cmd = "add" /\ ~IsBlank(out.arg) /\ out.before.kind = "json") =>
        \/ out.failure = "IOFailure" /\ file = out.before
        \/ /\ out.failure = "none"
           /\ file.kind = "json"
           /\ Len(file.items) = Len(out.before.items) + 1
           /\ SubSeq(file.items, 1, Len(out.before.items)) = out.before.items
           /\ LET added == Stored(file)[Len(file.items)]
              IN  /\ IsTrimOf(added.name, out.arg)
                  /\ added.done = FALSE
                  /\ "completedAt" \notin DOMAIN added
                  /\ ~\E i \in 1..Len(file.items[Len(file.items)]) :
                        file.items[Len(file.items)][i].k = "completedAt"

\* an add that succeeded on a list that already held a task
C1_Witness ==
    /\ out.cmd = "add"
    /\ out.failure = "none"
    /\ ~IsBlank(out.arg)
    /\ out.arg # trim(out.arg)
    /\ out.before.kind = "json"
    /\ Len(out.before.items) >= 1
    /\ Len(file.items) = Len(out.before.items) + 1

\* C2: when done(X) succeeds, every stored task that was pending and had id
\* X is now done with a non-empty completedAt, and every other task of the
\* list is as it was, also when another task carries id X.
C2_DoneCompletesEveryPendingX ==
    (out.cmd = "done" /\ out.failure = "none" /\ out.before.kind = "json") =>
        LET old == Stored(out.before)
            new == Stored(file)
        IN  \A j \in 1..Len(old) :
                (old[j].id = out.arg /\ ~old[j].done) =>
                    /\ Len(new) = Len(old)
                    /\ new[j].done
                    /\ "completedAt" \in DOMAIN new[j]
                    /\ new[j].completedAt # <<>>
                    /\ \A k \in (1..Len(old)) \ {j} :
                          file.items[k] = out.before.items[k]

\* C3: every task in the tasks file has a completedAt exactly when its done
\* field is true.
C3_CompletedAtIffDone ==
    \A i \in 1..Len(Stored(file)) :
        ("completedAt" \in DOMAIN Stored(file)[i]) <=> Stored(file)[i].done

\* a done has just completed one task of a list that also holds a pending one
C3_Witness ==
    /\ out.cmd = "done"
    /\ out.failure = "none"
    /\ \E i, j \in 1..Len(Stored(file)) :
          /\ Stored(file)[i].done
          /\ "completedAt" \in DOMAIN Stored(file)[i]
          /\ ~Stored(file)[j].done

\* C4: no two tasks in the tasks file have the same id, and two consecutive
\* generateId() calls return different ids.
C4_IdsUnique ==
    /\ \A i, j \in 1..Len(Stored(file)) :
          i # j => Stored(file)[i].id # Stored(file)[j].id
    /\ Len(gen) = 2 => gen[1].id # gen[2].id

\* C5: done(id) with a non-empty id that no stored task has writes nothing and
\* leaves the file as it was; when the list was loaded, the one message
\* reported is the not-found error.
C5_DoneUnknownIdChangesNothing ==
    (/\ out.cmd = "done"
     /\ out.arg # <<>>
     /\ \A i \in 1..Len(Stored(out.before)) : Stored(out.before)[i].id # out.arg) =>
        /\ out.fs.writes = 0
        /\ file = out.before
        /\ (out.before.kind = "json" /\ out.failure # "IOFailure") =>
              /\ out.failure = "NotFound"
              /\ out.msgs = <<error(<<"Task with ID \"">> \o out.arg
                                    \o <<"\" not found">>)>>

\* done was called with an id that none of the stored tasks has
C5_Witness ==
    /\ out.cmd = "done"
    /\ out.failure = "NotFound"
    /\ Len(Stored(out.before)) >= 1
    /\ \A i \in 1..Len(Stored(out.before)) : Stored(out.before)[i].id # out.arg

\* C6: add(s) with s empty or all whitespace reports "Task name is required"
\* and makes no file system call at all, so the store is as it was, whether
\* or not it is initialized.
C6_BlankNameTouchesNothing ==
    (out.cmd = "add" /\ IsBlank(out.arg)) =>
        /\ out.msgs = <<error(<<"Task name is required">>)>>
        /\ out.failure = "ValidationError"
        /\ out.fs = NoCalls
        /\ file = out.before
        /\ dirExists = out.dirBefore

\* add was given a name of whitespace only, on a store that is not initialized
C6_Witness ==
    /\ out.cmd = "add"
    /\ out.arg # <<>>
    /\ IsBlank(out.arg)
    /\ ~existsSync(out.before)

\* C7: init creates the directory and a tasks file holding [] on a fresh home,
\* creates the missing file when only the directory exists, and when both
\* exist makes no mkdir and no write, leaves the file as it is and reports
\* "already initialized"; an init without I/O error leaves both in place.
C7_InitCompletesAndKeepsData ==
    out.cmd = "init" =>
        /\ (~out.dirBefore /\ ~existsSync(out.before) /\ out.failure = "none") =>
              /\ dirExists
              /\ file = [kind |-> "json", items |-> <<>>]
              /\ out.fs.mkdirs = 1
              /\ out.fs.writes = 1
              /\ out.msgs = <<log(<<"Initialized pondo in ~/.pondo">>)>>
        /\ (out.dirBefore /\ ~existsSync(out.before) /\ out.failure = "none") =>
              /\ dirExists
              /\ file = [kind |-> "json", items |-> <<>>]
              /\ out.fs.mkdirs = 0
              /\ out.fs.writes = 1
              /\ out.msgs = <<log(<<"Initialized pondo in ~/.pondo">>)>>
        /\ (out.dirBefore /\ existsSync(out.before)) =>
              /\ out.failure = "none"
              /\ out.fs.mkdirs = 0
              /\ out.fs.writes = 0
              /\ file = out.before
              /\ dirExists
              /\ out.msgs = <<log(<<"pondo is already initialized in ~/.pondo">>)>>
        /\ out.failure = "none" => dirExists /\ existsSync(file)
        /\ out.failure \in {"none", "IOFailure"}
        /\ existsSync(out.before) => file = out.before

\* init has completed a home in which only the directory existed
C7_Witness ==
    /\ out.cmd = "init"
    /\ out.failure = "none"
    /\ out.dirBefore
    /\ ~existsSync(out.before)
    /\ existsSync(file)

\* C8: every id generateId() returns has exactly 4 characters: 'T' and then 3
\* characters of A-Z, 0-9.
C8_IdIsTAndThreeChars ==
    \A i \in 1..Len(gen) :
        /\ Len(gen[i].id) = 4
        /\ gen[i].id[1] = "T"
        /\ \A j \in 2..Len(gen[i].id) : gen[i].id[j] \in IdChars

\* C9: a task that is completed stays as it is under every later invocation:
\* its done stays true and its completedAt keeps its value.
C9_CompletedTaskNeverChanges ==
    \A i \in 1..Len(Stored(out.before)) :
        Stored(out.before)[i].done =>
            /\ Len(Stored(file)) >= i
            /\ Stored(file)[i].done
            /\ "completedAt" \in DOMAIN Stored(file)[i]
            /\ Stored(file)[i].completedAt = Stored(out.before)[i].completedAt

\* C10: the exit status is non-zero only when init hits an I/O error, which it
\* reports before exiting with status 1; a failure of add, list or done by
\* validation, missing store, unknown id or a tasks file that is not JSON is
\* reported as one message, writes nothing, and the process exits with 0.
C10_OnlyInitFailureExitsNonZero ==
    /\ out.exit # ExitOk => out.cmd = "init" /\ out.failure = "IOFailure"
    /\ (out.cmd = "init" /\ out.failure = "IOFailure") =>
          /\ out.exit = 1
          /\ Len(out.msgs) = 1
          /\ out.msgs[1].stream = "stderr"
    /\ (/\ out.cmd \in {"add", "list", "done"}
        /\ out.failure \in {"ValidationError", "NotInitialized", "NotFound",
                            "CorruptData"}) =>
          /\ out.exit = 0
          /\ Len(out.msgs) = 1
          /\ out.msgs[1].stream = "stderr"
          /\ out.fs.writes = 0
          /\ file = out.before
    /\ (out.cmd \in {"add", "list", "done"} /\ out.failure = "none") =>
          /\ out.exit = 0
          /\ \A i \in 1..Len(out.msgs) : out.msgs[i].stream = "stdout"

\* add has failed on a tasks file that is not JSON
C10_Witness ==
    /\ out.cmd = "add"
    /\ out.failure = "CorruptData"
    /\ out.before = Garbage
    /\ out.exit = 0

\* C11: when two invocations that both succeed have both loaded the list
\* before either saved, the file is what the one that saved last wrote: the
\* list both loaded with that one command applied to it, and nothing of the
\* other command.
C11_LastWriterWins ==
    \A p, q \in Procs :
        (/\ p # q
         /\ procs[p].pc = "exited" /\ procs[q].pc = "exited"
         /\ procs[p].failure = "none" /\ procs[q].failure = "none"
         /\ procs[p].savedAt = 1 /\ procs[q].savedAt = 2
         /\ procs[p].loadedAt = 0 /\ procs[q].loadedAt = 0) =>
            LET old == procs[q].loaded.items
            IN  /\ procs[p].loaded = procs[q].loaded
                /\ file.kind = "json"
                /\ IF procs[q].cmd = "add"
                   THEN /\ Len(file.items) = Len(old) + 1
                        /\ SubSeq(file.items, 1, Len(old)) = old
                   ELSE /\ Len(file.items) = Len(old)
                        /\ \A k \in 1..Len(old) :
                              Stored(procs[q].loaded)[k].id # procs[q].arg
                                  => file.items[k] = old[k]
                        /\ \E k \in 1..Len(old) :
                              /\ Stored(procs[q].loaded)[k].id = procs[q].arg
                              /\ \A j \in (1..Len(old)) \ {k} : file.items[j] = old[j]

\* two adds loaded the same list, both reported "Added task", and the file
\* holds one task more than they loaded, not two
C11_Witness ==
    /\ procs[1].pc = "exited" /\ procs[2].pc = "exited"
    /\ procs[1].cmd = "add" /\ procs[2].cmd = "add"
    /\ procs[1].failure = "none" /\ procs[2].failure = "none"
    /\ procs[1].loadedAt = 0 /\ procs[2].loadedAt = 0
    /\ procs[1].savedAt > 0 /\ procs[2].savedAt > 0
    /\ \A p \in Procs : procs[p].msgs[1].stream = "stdout"
    /\ Len(file.items) = Len(procs[1].loaded.items) + 1

====
